---- MODULE Spec2Model ----
(***************************************************************************)
(* ClickClick auto-clicker: the click-automation engine.                   *)
(*                                                                         *)
(*   ClickScheduler   (src/src/click_scheduler.py)  start / stop / loop    *)
(*   MouseController  (src/src/mouse_controller.py) lock / unlock / click  *)
(*   ClickClickApp    (src/src/main.py)             toggle_clicking,       *)
(*                                                  update_delay_range     *)
(*   HotkeyHandler    (src/src/hotkey_handler.py)   start / stop /         *)
(*                                                  set_hotkey / _on_press *)
(*                                                                         *)
(* Two caller threads enter the controller: the hotkey listener ("hk",     *)
(* HotkeyHandler._on_press) and the Tk main thread ("ui", the GUI's button *)
(* and settings handlers).  Every threading.Thread the scheduler creates   *)
(* is a loop thread 1..MaxThreads.  A `with self._state_lock:` block is    *)
(* one atomic step; every other read or write of a shared attribute is a   *)
(* step of its own.  Time is abstracted: a sleep ends and a bounded join   *)
(* times out at any moment the thread scheduler allows.                    *)
(*                                                                         *)
(* Delays are counted in hundredths of a second (0.01 s = 1).              *)
(***************************************************************************)
EXTENDS Integers, Sequences, FiniteSets, TLC

\* ------------------------------------------------------------- bounds
MaxThreads == 2          \* threading.Thread objects the scheduler may create
MaxCalls == 2            \* controller calls of the two callers together (Spec)
MaxSeqCalls == 4         \* controller calls of the single caller (SpecSeq)
MaxSchedCalls == 4       \* scheduler calls of the two callers together (SpecSched)
MaxOneCalls == 5         \* scheduler calls of the single caller (SpecOne)
MaxMouseCalls == 2       \* controller calls of the single caller (SpecMouse)
MaxListeners == 2        \* pynput Listener objects the handler may create
MaxHotkeyOps == 5        \* handler calls and key events together (SpecHotkey)
MaxLiveCalls == 2        \* calls of the two callers together (SpecLive)
MaxUiCalls == 3          \* toggles of the hotkey listener (SpecUi)

\* --------------------------------------------------- program constants
MIN_CLICK_DELAY == 100   \* config.MIN_CLICK_DELAY = 1.0
MAX_CLICK_DELAY == 300   \* config.MAX_CLICK_DELAY = 3.0
DELAY_FLOOR == 1         \* max(0.01, ...) in set_delay_range
OFFSET_CAP == 50         \* min(50, v) in set_offset_range

\* ------------------------------------------------------ input domains
Callers == {"hk", "ui"}
Threads == 1..MaxThreads
NoThread == 0
NoPos == <<>>
Listeners == 1..MaxListeners
NoListener == 0
\* An Optional attribute of the hotkey binding or of a key event: <<v>> is
\* the value v, Unset is None.  A name is the pair of its first four
\* characters and the rest, a character argument the sequence of its
\* characters.
Unset == <<>>
NUMPAD5_VK == 101        \* the default of HotkeyHandler.__init__
\* An argument int() rejects with TypeError or ValueError.
BadVk == <<0, 0>>
KeyF8 == <<"Key.", "f8">>
\* What pynput may pass to _on_press: a KeyCode (vk, char), a Key enum
\* member (str is str(key)), or an object whose str() raises.
KeyEvents ==
    { [kind |-> "code", vk |-> <<NUMPAD5_VK>>, char |-> Unset, str |-> Unset],
      [kind |-> "code", vk |-> <<102>>, char |-> <<"X">>, str |-> Unset],
      [kind |-> "code", vk |-> Unset, char |-> <<"x">>, str |-> Unset],
      [kind |-> "key", vk |-> Unset, char |-> Unset, str |-> KeyF8],
      [kind |-> "bad", vk |-> Unset, char |-> Unset, str |-> Unset] }
NoEvent == [kind |-> "none", vk |-> Unset, char |-> Unset, str |-> Unset]
\* Arguments (vk, char, name) of set_hotkey: one attribute, none, platform
\* code and character together (what GUIWindow._capture_hotkey passes for a
\* key that has both), and three values set_hotkey rejects.
HotkeyArgs ==
    { <<<<NUMPAD5_VK>>, Unset, Unset>>,
      <<Unset, <<"x">>, Unset>>,
      <<Unset, Unset, KeyF8>>,
      <<Unset, Unset, Unset>>,
      <<<<NUMPAD5_VK>>, <<"x">>, Unset>>,
      <<BadVk, <<"x", "y">>, <<"", "f8">>>> }
\* Pointer positions pyautogui.position() may report.
Points == {<<10, 10>>, <<20, 15>>}
\* Where the pointer is when the application starts.
StartPoint == <<10, 10>>
\* Arguments of update_delay_range / set_delay_range: (0.5, 0.0) is raised to
\* the floor and swapped by set_delay_range.
UpdateInputs == {<<50, 0>>}
\* An argument of set_delay_range or set_offset_range as the caller passes
\* it: <<n>> is the number n, NonNumeric a value float() and int() reject
\* with TypeError or ValueError (None, "abc").
NonNumeric == <<>>
DelayArgs == {NonNumeric, <<0 - 5>>, <<50>>, <<200>>}
OffsetArgs == {NonNumeric, <<0 - 5>>, <<1>>, <<60>>}
\* GUIWindow.__init__ (gui_window.py lines 294, 298) applies the persisted
\* offset_range, clamped to [0, 50], through update_offset_range before
\* ClickClickApp.__init__ returns: the offset a settings file may hold.
InitOffsetRanges == {0}

VARIABLES
    \* ClickScheduler
    sched_is_active,      \* self.is_active
    sched_thread,         \* self.thread (NoThread = None)
    min_delay, max_delay, \* self._min_delay, self._max_delay
    \* MouseController
    locked_position,      \* self.locked_position (NoPos = None)
    offset_range,         \* self.offset_range
    \* ClickClickApp
    app_is_active,        \* self.is_active
    app_locked_position,  \* self.locked_position (mirror for display)
    \* collaborators
    ind_is_active,        \* StatusIndicator._is_active
    gui_status,           \* last (is_active, position) posted by gui.update_status
    eta,                  \* last value pushed through _handle_next_delay
    ui_queue,             \* GUIWindow._ui_event_queue: status updates posted
    ui_shown,             \* (GUIWindow._is_running, position on its label)
    last_click,           \* target of the last pyautogui.click (NoPos = none yet)
    pointer,              \* where the pointer is: what pyautogui.position() gives
    \* loop threads
    tpc,                  \* position of each loop thread
    tx, ty,               \* target_x, target_y of click_at_locked_position
    td,                   \* delay of _clicking_loop while it sleeps (0 = none)
    nCreated,             \* Thread objects created so far
    \* caller threads
    pc,                   \* position in the controller operation
    spc,                  \* position in the scheduler operation it calls
    jt,                   \* the thread a stop() is joining
    call,                 \* history of the controller call in flight
    budget,               \* calls the callers may still begin
    \* HotkeyHandler
    hotkey_vk,            \* self._hotkey_vk
    hotkey_char,          \* self._hotkey_char
    hotkey_name,          \* self._hotkey_name
    hk_listener,          \* self._listener (NoListener = None)
    lstate,               \* each Listener: unborn, created, running, stopped
    kpc,                  \* position of the listener thread in _on_press
    kev,                  \* the key event it is handling
    kown,                 \* the Listener that delivered it
    hpc,                  \* position of the set_hotkey call in flight
    harg,                 \* <<binding before it, its arguments>>
    \* HotkeyHandler history
    kseen,                \* complete bindings in force while kev is handled
    kfaulted,             \* Listeners one of whose earlier events raised
    klast,                \* event, outcome and kseen of the last event handled
    hk_last,              \* last start()/stop(): op, raised, and whether
                          \*   every platform call so far succeeded
    \* history
    stopReturned,         \* a stop() that cleared is_active has returned and
                          \*   no start() has set is_active since
    passed,               \* start() calls that set is_active since it was last cleared
    everCleared,          \* is_active has been cleared at least once
    doomed                \* sleeping loop threads during whose sleep is_active
                          \*   was cleared

schedVars == <<sched_is_active, sched_thread, min_delay, max_delay>>
mouseVars == <<locked_position, offset_range>>
appVars == <<app_is_active, app_locked_position>>
dispVars == <<ind_is_active, gui_status, eta>>
envVars == <<last_click, pointer>>
threadVars == <<tpc, tx, ty, td, nCreated>>
callerVars == <<pc, spc, jt, call, budget>>
histVars == <<stopReturned, passed, everCleared, doomed>>
uiVars == <<ui_queue, ui_shown>>
hkVars == <<hotkey_vk, hotkey_char, hotkey_name, hk_listener, lstate, kpc, kev,
            kown, hpc, harg, kseen, kfaulted, klast, hk_last>>
vars == <<schedVars, mouseVars, appVars, dispVars, envVars, threadVars,
          callerVars, histVars, hkVars, uiVars>>

\* ------------------------------------------------------------ helpers
Max(a, b) == IF a >= b THEN a ELSE b
Min(a, b) == IF a <= b THEN a ELSE b

NoCall == [path |-> "none", done |-> {}, fault |-> {}, cap |-> NoPos,
           rep |-> <<>>]

\* The scheduler operation a controller position calls.
StartSites == {"t_start", "u_start", "x_start"}
StopSites == {"r_stop", "d_stop", "u_stop", "x_stop"}
StatusSites == {"x_status"}
EntrySpc(p) ==
    IF p \in StartSites THEN "s_check"
    ELSE IF p \in StopSites THEN "p_check"
    ELSE IF p \in StatusSites THEN "g_active"
    ELSE "none"

\* Where the controller continues when the scheduler call made at p returns
\* (raised = TRUE: with an exception).
Cont(p, raised) ==
    CASE p = "t_start" -> IF raised THEN "r_stop" ELSE "t_show_active"
      [] p = "r_stop"  -> "r_unlock"
      [] p = "d_stop"  -> "d_unlock"
      [] p = "u_stop"  -> "u_start"
      [] p = "u_start" -> "idle"
      [] p \in {"x_start", "x_stop", "x_status"}
                       -> IF raised THEN "x_raised" ELSE "x_returned"
      [] OTHER         -> "idle"

\* The step a scheduler call site stands for in the call history.
SiteStep(p) ==
    IF p \in StartSites THEN "start"
    ELSE IF p \in StopSites THEN "stop"
    ELSE "status"

\* The loop threads inside time.sleep (click_scheduler.py line 156).
Sleepers == {t \in Threads : tpc[t] = "sleep"}

Goto(c, p) ==
    /\ pc' = [pc EXCEPT ![c] = p]
    /\ spc' = [spc EXCEPT ![c] = EntrySpc(p)]

\* The controller call of caller c returns: its history is dropped.
Finish(c) ==
    /\ pc' = [pc EXCEPT ![c] = "idle"]
    /\ spc' = [spc EXCEPT ![c] = "none"]
    /\ call' = [call EXCEPT ![c] = NoCall]

Mark(c, step, failed) ==
    [call[c] EXCEPT !.done = @ \cup {step},
                    !.fault = IF failed THEN @ \cup {step} ELSE @]

\* The scheduler call of caller c returns to its caller, normally or (raised)
\* with the exception `what`.
SubReturn(c, raised, what) ==
    IF Cont(pc[c], raised) = "idle"
    THEN Finish(c)
    ELSE /\ Goto(c, Cont(pc[c], raised))
         /\ call' = [call EXCEPT ![c] =
                       [Mark(c, SiteStep(pc[c]), raised) EXCEPT
                          !.fault = IF raised THEN @ \cup {what} ELSE @]]

\* -------------------------------------------------------------- Init
\* HotkeyHandler.__init__ (hotkey_handler.py lines 43-61): TOGGLE_HOTKEY is
\* 'num_5', so the binding is platform code 101; the Listener is created
\* and not started.
HotkeyConstructed ==
    /\ hotkey_vk = <<NUMPAD5_VK>>
    /\ hotkey_char = Unset
    /\ hotkey_name = Unset
    /\ hk_listener = 1
    /\ lstate = [l \in Listeners |-> IF l = 1 THEN "created" ELSE "unborn"]
    /\ kpc = "idle"
    /\ kev = NoEvent
    /\ kown = NoListener
    /\ hpc = "idle"
    /\ harg = <<>>
    /\ kseen = {}
    /\ kfaulted = {}
    /\ klast = [ev |-> NoEvent, res |-> "none", seen |-> {}, by |-> NoListener]
    /\ hk_last = [op |-> "none", raised |-> FALSE, clean |-> TRUE]

\* The state after ClickClickApp.__init__ (main.py lines 56-69), with
\* ClickScheduler.__init__ (lines 48-55) and MouseController.__init__ (55-57).
Constructed ==
    /\ sched_is_active = FALSE
    /\ sched_thread = NoThread
    /\ min_delay = MIN_CLICK_DELAY
    /\ max_delay = MAX_CLICK_DELAY
    /\ locked_position = NoPos
    /\ offset_range \in InitOffsetRanges
    /\ app_is_active = FALSE
    /\ app_locked_position = NoPos
    /\ ind_is_active = FALSE
    /\ gui_status = <<FALSE, NoPos>>
    /\ eta = "unset"
    /\ ui_queue = <<>>
    /\ ui_shown = <<FALSE, NoPos>>
    /\ last_click = NoPos
    /\ pointer = StartPoint
    /\ tpc = [t \in Threads |-> "unborn"]
    /\ tx = [t \in Threads |-> 0]
    /\ ty = [t \in Threads |-> 0]
    /\ td = [t \in Threads |-> 0]
    /\ nCreated = 0
    /\ pc = [c \in Callers |-> "idle"]
    /\ spc = [c \in Callers |-> "none"]
    /\ jt = [c \in Callers |-> NoThread]
    /\ call = [c \in Callers |-> NoCall]
    /\ stopReturned = FALSE
    /\ passed = 0
    /\ everCleared = FALSE
    /\ doomed = {}
    /\ HotkeyConstructed

\* ------------------------------------------------- ClickScheduler.start
\* StartCheck without the `if self.is_active: raise`.
StartCheck_Unguarded(c) ==
    /\ spc[c] = "s_check"
    /\ sched_is_active' = TRUE
    /\ spc' = [spc EXCEPT ![c] = "s_create"]
    /\ passed' = Min(passed + 1, 2)
    /\ stopReturned' = FALSE
    /\ UNCHANGED <<pc, call>>
    /\ UNCHANGED <<sched_thread, min_delay, max_delay, mouseVars, appVars,
                   dispVars, envVars, threadVars, jt, everCleared, budget, doomed,
                   hkVars, uiVars>>

\* Lines 74-77: under the state lock, raise if already running, else set
\* is_active.
StartCheck(c) ==
    /\ spc[c] = "s_check"
    /\ IF sched_is_active
       THEN /\ SubReturn(c, TRUE, "already_running")
            /\ UNCHANGED <<sched_is_active, passed, stopReturned>>
       ELSE /\ sched_is_active' = TRUE
            /\ spc' = [spc EXCEPT ![c] = "s_create"]
            /\ passed' = Min(passed + 1, 2)
            /\ stopReturned' = FALSE
            /\ UNCHANGED <<pc, call>>
    /\ UNCHANGED <<sched_thread, min_delay, max_delay, mouseVars, appVars,
                   dispVars, envVars, threadVars, jt,
                   everCleared, budget, doomed, hkVars, uiVars>>

\* Lines 80-84: self.thread = threading.Thread(target=self._clicking_loop).
StartCreate(c) ==
    /\ spc[c] = "s_create"
    /\ nCreated < MaxThreads
    /\ nCreated' = nCreated + 1
    /\ tpc' = [tpc EXCEPT ![nCreated + 1] = "new"]
    /\ sched_thread' = nCreated + 1
    /\ spc' = [spc EXCEPT ![c] = "s_launch"]
    /\ UNCHANGED <<sched_is_active, min_delay, max_delay, mouseVars, appVars,
                   dispVars, envVars, tx, ty, td, pc, jt, call, histVars,
                   budget, hkVars, uiVars>>

\* Lines 85-89: self.thread.start().  self.thread is read again here: it is
\* None after a concurrent stop() or rollback (AttributeError), and a thread
\* that was already started cannot be started again (RuntimeError).  The
\* launch itself may fail (no resources).  Every exception goes to the
\* rollback of lines 90-96.
StartLaunch(c) ==
    /\ spc[c] = "s_launch"
    /\ IF sched_thread = NoThread \/ tpc[sched_thread] # "new"
       THEN /\ spc' = [spc EXCEPT ![c] = "s_rb_flag"]
            /\ UNCHANGED <<tpc, pc, call>>
       ELSE \E launched \in BOOLEAN :
              IF launched
              THEN /\ tpc' = [tpc EXCEPT ![sched_thread] = "check"]
                   /\ SubReturn(c, FALSE, "")
              ELSE /\ spc' = [spc EXCEPT ![c] = "s_rb_flag"]
                   /\ UNCHANGED <<tpc, pc, call>>
    /\ UNCHANGED <<schedVars, mouseVars, appVars, dispVars, envVars, tx, ty,
                   nCreated, td, jt, histVars, budget, hkVars, uiVars>>

\* StartRollbackFlag that leaves is_active set.
StartRollbackFlag_KeepFlag(c) ==
    /\ spc[c] = "s_rb_flag"
    /\ spc' = [spc EXCEPT ![c] = "s_rb_handle"]
    /\ UNCHANGED <<schedVars, mouseVars, appVars, dispVars, envVars,
                   threadVars, pc, jt, call, histVars, budget, hkVars, uiVars>>

\* Lines 91-92: the rollback clears is_active under the lock.
StartRollbackFlag(c) ==
    /\ spc[c] = "s_rb_flag"
    /\ sched_is_active' = FALSE
    /\ passed' = 0
    /\ everCleared' = TRUE
    /\ doomed' = doomed \cup Sleepers
    /\ spc' = [spc EXCEPT ![c] = "s_rb_handle"]
    /\ UNCHANGED <<sched_thread, min_delay, max_delay, mouseVars, appVars,
                   dispVars, envVars, threadVars, pc, jt, call, stopReturned,
                   budget, hkVars, uiVars>>

\* Lines 93-96: self.thread = None, then the exception is raised again.
StartRollbackHandle(c) ==
    /\ spc[c] = "s_rb_handle"
    /\ sched_thread' = NoThread
    /\ SubReturn(c, TRUE, "launch")
    /\ UNCHANGED <<sched_is_active, min_delay, max_delay, mouseVars, appVars,
                   dispVars, envVars, threadVars, jt, histVars, budget,
                   hkVars, uiVars>>

\* -------------------------------------------------- ClickScheduler.stop
\* StopCheck without the `if not self.is_active: return`.
StopCheck_Unguarded(c) ==
    /\ spc[c] = "p_check"
    /\ sched_is_active' = FALSE
    /\ passed' = 0
    /\ everCleared' = TRUE
    /\ doomed' = doomed \cup Sleepers
    /\ spc' = [spc EXCEPT ![c] = "p_handle"]
    /\ UNCHANGED <<pc, call>>
    /\ UNCHANGED <<sched_thread, min_delay, max_delay, mouseVars, appVars,
                   dispVars, envVars, threadVars, jt, stopReturned, budget,
                   hkVars, uiVars>>

\* Lines 109-112: under the state lock, return if not running, else clear
\* is_active.
StopCheck(c) ==
    /\ spc[c] = "p_check"
    /\ IF ~sched_is_active
       THEN /\ SubReturn(c, FALSE, "")
            /\ UNCHANGED <<sched_is_active, passed, everCleared, doomed>>
       ELSE /\ sched_is_active' = FALSE
            /\ passed' = 0
            /\ everCleared' = TRUE
            /\ doomed' = doomed \cup Sleepers
            /\ spc' = [spc EXCEPT ![c] = "p_handle"]
            /\ UNCHANGED <<pc, call>>
    /\ UNCHANGED <<sched_thread, min_delay, max_delay, mouseVars, appVars,
                   dispVars, envVars, threadVars, jt, stopReturned, budget,
                   hkVars, uiVars>>

\* Line 115: if self.thread is not None (else fall through to the return).
StopHandle(c) ==
    /\ spc[c] = "p_handle"
    /\ IF sched_thread = NoThread
       THEN /\ SubReturn(c, FALSE, "")
            /\ stopReturned' = ~sched_is_active
       ELSE /\ spc' = [spc EXCEPT ![c] = "p_join"]
            /\ UNCHANGED <<pc, call, stopReturned>>
    /\ UNCHANGED <<schedVars, mouseVars, appVars, dispVars, envVars,
                   threadVars, jt, passed, everCleared, budget, doomed,
                   hkVars, uiVars>>

\* Lines 116-122: timeout = self._max_delay + 1.0; self.thread.join(timeout).
\* self.thread is read again: None raises AttributeError and a thread that
\* was never started raises RuntimeError, both caught by `except Exception`.
StopJoin(c) ==
    /\ spc[c] = "p_join"
    /\ IF sched_thread = NoThread \/ tpc[sched_thread] = "new"
       THEN /\ spc' = [spc EXCEPT ![c] = "p_alive"]
            /\ UNCHANGED jt
       ELSE /\ spc' = [spc EXCEPT ![c] = "p_wait"]
            /\ jt' = [jt EXCEPT ![c] = sched_thread]
    /\ UNCHANGED <<schedVars, mouseVars, appVars, dispVars, envVars,
                   threadVars, pc, call, histVars, budget, hkVars, uiVars>>

\* StopWait whose join has no timeout: it returns only when the thread has
\* exited.
StopWait_NoTimeout(c) ==
    /\ spc[c] = "p_wait"
    /\ tpc[jt[c]] = "dead"
    /\ spc' = [spc EXCEPT ![c] = "p_alive"]
    /\ jt' = [jt EXCEPT ![c] = NoThread]
    /\ call' = [call EXCEPT ![c] = Mark(c, "joined", FALSE)]
    /\ UNCHANGED <<schedVars, mouseVars, appVars, dispVars, envVars,
                   threadVars, pc, histVars, budget, hkVars, uiVars>>

\* Line 119: join returns when the thread has exited, or when the timeout
\* has elapsed with the thread still alive.
StopWait(c) ==
    /\ spc[c] = "p_wait"
    /\ spc' = [spc EXCEPT ![c] = "p_alive"]
    /\ jt' = [jt EXCEPT ![c] = NoThread]
    /\ call' = [call EXCEPT ![c] =
                  Mark(c, IF tpc[jt[c]] = "dead" THEN "joined" ELSE "join_timeout",
                       FALSE)]
    /\ UNCHANGED <<schedVars, mouseVars, appVars, dispVars, envVars,
                   threadVars, pc, histVars, budget, hkVars, uiVars>>

\* Lines 123-125 (finally): self.thread.is_alive().  self.thread is read
\* again; None raises AttributeError out of stop().
StopAlive(c) ==
    /\ spc[c] = "p_alive"
    /\ IF sched_thread = NoThread
       THEN SubReturn(c, TRUE, "handle")
       ELSE /\ spc' = [spc EXCEPT ![c] = "p_clear"]
            /\ UNCHANGED <<pc, call>>
    /\ UNCHANGED <<schedVars, mouseVars, appVars, dispVars, envVars,
                   threadVars, jt, histVars, budget, hkVars, uiVars>>

\* Lines 126-129: self.thread = None; return.
StopClear(c) ==
    /\ spc[c] = "p_clear"
    /\ sched_thread' = NoThread
    /\ SubReturn(c, FALSE, "")
    /\ stopReturned' = ~sched_is_active
    /\ UNCHANGED <<sched_is_active, min_delay, max_delay, mouseVars, appVars,
                   dispVars, envVars, threadVars, jt,
                   passed, everCleared, budget, doomed, hkVars, uiVars>>

\* ----------------------------------------- ClickScheduler.set_delay_range
\* ClampedRange without the floor of lines 202-203.
ClampedRange_NoFloor(a, b) ==
    IF a > b THEN <<b, a>> ELSE <<a, b>>

\* ClampedRange without the swap of lines 206-207.
ClampedRange_NoSwap(a, b) ==
    <<Max(DELAY_FLOOR, a), Max(DELAY_FLOOR, b)>>

\* Lines 202-207: both bounds raised to the floor, swapped if min > max.
ClampedRange(a, b) ==
    LET mn == Max(DELAY_FLOOR, a)
        mx == Max(DELAY_FLOOR, b)
    IN  IF mn > mx THEN <<mx, mn>> ELSE <<mn, mx>>

\* set_delay_range that stores the first bound although the second argument
\* is rejected.
NewRange_Partial(x, y, cur) ==
    IF x = NonNumeric THEN cur
    ELSE IF y = NonNumeric THEN <<Max(DELAY_FLOOR, x[1]), cur[2]>>
    ELSE ClampedRange(x[1], y[1])

\* Lines 201-207: the pair set_delay_range stores for the arguments x, y
\* when the stored pair is cur; float() of a non-numeric argument raises
\* TypeError or ValueError and the method returns (lines 204-205).
NewRange(x, y, cur) ==
    IF x = NonNumeric \/ y = NonNumeric THEN cur
    ELSE ClampedRange(x[1], y[1])

\* ------------------------------------------- ClickScheduler.get_status
\* Line 181: 'is_active': self.is_active.
StatusActive(c) ==
    /\ spc[c] = "g_active"
    /\ call' = [call EXCEPT ![c].rep = <<sched_is_active>>]
    /\ spc' = [spc EXCEPT ![c] = "g_alive_test"]
    /\ UNCHANGED <<schedVars, mouseVars, appVars, dispVars, envVars,
                   threadVars, pc, jt, histVars, budget, hkVars, uiVars>>

\* Line 182: the condition of `... if self.thread else False`.
StatusAliveTest(c) ==
    /\ spc[c] = "g_alive_test"
    /\ spc' = [spc EXCEPT ![c] =
                 IF sched_thread = NoThread THEN "g_name_test" ELSE "g_alive"]
    /\ UNCHANGED <<schedVars, mouseVars, appVars, dispVars, envVars,
                   threadVars, pc, jt, call, histVars, budget, hkVars, uiVars>>

\* Line 182: self.thread.is_alive(); self.thread is read again and None
\* raises AttributeError out of get_status.
StatusAlive(c) ==
    /\ spc[c] = "g_alive"
    /\ IF sched_thread = NoThread
       THEN SubReturn(c, TRUE, "handle")
       ELSE /\ spc' = [spc EXCEPT ![c] = "g_name_test"]
            /\ UNCHANGED <<pc, call>>
    /\ UNCHANGED <<schedVars, mouseVars, appVars, dispVars, envVars,
                   threadVars, jt, histVars, budget, hkVars, uiVars>>

\* Line 183: the condition of `... if self.thread else None`.
StatusNameTest(c) ==
    /\ spc[c] = "g_name_test"
    /\ spc' = [spc EXCEPT ![c] =
                 IF sched_thread = NoThread THEN "g_min" ELSE "g_name"]
    /\ UNCHANGED <<schedVars, mouseVars, appVars, dispVars, envVars,
                   threadVars, pc, jt, call, histVars, budget, hkVars, uiVars>>

\* Line 183: self.thread.name; None raises AttributeError.
StatusName(c) ==
    /\ spc[c] = "g_name"
    /\ IF sched_thread = NoThread
       THEN SubReturn(c, TRUE, "handle")
       ELSE /\ spc' = [spc EXCEPT ![c] = "g_min"]
            /\ UNCHANGED <<pc, call>>
    /\ UNCHANGED <<schedVars, mouseVars, appVars, dispVars, envVars,
                   threadVars, jt, histVars, budget, hkVars, uiVars>>

\* Line 184: 'min_delay': self._min_delay (no lock).
StatusMin(c) ==
    /\ spc[c] = "g_min"
    /\ call' = [call EXCEPT ![c].rep = Append(@, min_delay)]
    /\ spc' = [spc EXCEPT ![c] = "g_max"]
    /\ UNCHANGED <<schedVars, mouseVars, appVars, dispVars, envVars,
                   threadVars, pc, jt, histVars, budget, hkVars, uiVars>>

\* Lines 185-186: 'max_delay': self._max_delay (no lock); the dict
\* <<is_active, min_delay, max_delay>> is returned.
StatusMax(c) ==
    /\ spc[c] = "g_max"
    /\ Goto(c, "x_returned")
    /\ call' = [call EXCEPT ![c] =
                  [Mark(c, "status", FALSE) EXCEPT !.rep = Append(@, max_delay)]]
    /\ UNCHANGED <<schedVars, mouseVars, appVars, dispVars, envVars,
                   threadVars, jt, histVars, budget, hkVars, uiVars>>


\* -------------------------------------------- ClickScheduler._clicking_loop
\* Lines 142-147: read is_active under the lock; leave the loop if cleared.
LoopCheck(t) ==
    /\ tpc[t] = "check"
    /\ tpc' = [tpc EXCEPT ![t] = IF sched_is_active THEN "bounds" ELSE "dead"]
    /\ UNCHANGED <<schedVars, mouseVars, appVars, dispVars, envVars, tx, ty,
                   nCreated, td, callerVars, histVars, hkVars, uiVars>>

\* Line 155: delay = random.uniform(mn, mx); the draws followed are the two
\* ends of the interval.
SampledDelays(mn, mx) == {mn, mx}

\* LoopSleep drawing from the bounds of the constructor instead of the
\* bounds stored now.
LoopSleep_Cached(t) ==
    /\ tpc[t] = "bounds"
    /\ \E d \in SampledDelays(MIN_CLICK_DELAY, MAX_CLICK_DELAY) :
         td' = [td EXCEPT ![t] = d]
    /\ tpc' = [tpc EXCEPT ![t] = "sleep"]
    /\ UNCHANGED <<schedVars, mouseVars, appVars, dispVars, envVars, tx, ty,
                   nCreated, callerVars, histVars, hkVars, uiVars>>

\* Lines 152-156: read both bounds under the lock, draw the delay,
\* time.sleep(delay).
LoopSleep(t) ==
    /\ tpc[t] = "bounds"
    /\ \E d \in SampledDelays(min_delay, max_delay) :
         td' = [td EXCEPT ![t] = d]
    /\ tpc' = [tpc EXCEPT ![t] = "sleep"]
    /\ UNCHANGED <<schedVars, mouseVars, appVars, dispVars, envVars, tx, ty,
                   nCreated, callerVars, histVars, hkVars, uiVars>>

\* LoopWake without the re-check of lines 159-161.
LoopWake_NoRecheck(t) ==
    /\ tpc[t] = "sleep"
    /\ tpc' = [tpc EXCEPT ![t] = "m_check"]
    /\ td' = [td EXCEPT ![t] = 0]
    /\ doomed' = doomed \ {t}
    /\ UNCHANGED <<schedVars, mouseVars, appVars, dispVars, envVars, tx, ty,
                   nCreated, callerVars, stopReturned, passed, everCleared,
                   hkVars, uiVars>>

\* Lines 156-164: the sleep ends; is_active is read again under the lock;
\* `continue` if cleared, else call click_at_locked_position.
LoopWake(t) ==
    /\ tpc[t] = "sleep"
    /\ tpc' = [tpc EXCEPT ![t] = IF sched_is_active THEN "m_check" ELSE "check"]
    /\ td' = [td EXCEPT ![t] = 0]
    /\ doomed' = doomed \ {t}
    /\ UNCHANGED <<schedVars, mouseVars, appVars, dispVars, envVars, tx, ty,
                   nCreated, callerVars, stopReturned, passed, everCleared,
                   hkVars, uiVars>>

\* ------------------------------ MouseController.click_at_locked_position
\* Lines 117-118: return if no position is locked.
ClickCheck(t) ==
    /\ tpc[t] = "m_check"
    /\ tpc' = [tpc EXCEPT ![t] = IF locked_position = NoPos THEN "check" ELSE "m_x"]
    /\ UNCHANGED <<schedVars, mouseVars, appVars, dispVars, envVars, tx, ty,
                   nCreated, td, callerVars, histVars, hkVars, uiVars>>

\* Lines 159-162: each offset is random.randint(-rng, rng); the draws
\* followed are the two extremes and the centre of that interval.
RandomOffsets(rng) == {0 - rng, 0, rng}

\* Lines 122-123: the offsets are drawn and target_x is computed from a
\* fresh read of self.locked_position; None raises TypeError, caught at
\* line 131.  ty holds offset_y until line 124.
ClickReadX(t) ==
    /\ tpc[t] = "m_x"
    /\ IF locked_position = NoPos
       THEN /\ tpc' = [tpc EXCEPT ![t] = "check"]
            /\ UNCHANGED <<tx, ty>>
       ELSE \E dx \in RandomOffsets(offset_range), dy \in RandomOffsets(offset_range) :
              /\ tx' = [tx EXCEPT ![t] = locked_position[1] + dx]
              /\ ty' = [ty EXCEPT ![t] = dy]
              /\ tpc' = [tpc EXCEPT ![t] = "m_y"]
    /\ UNCHANGED <<schedVars, mouseVars, appVars, dispVars, envVars, nCreated, td,
                   callerVars, histVars, hkVars, uiVars>>

\* Line 124: target_y from another read of self.locked_position.
ClickReadY(t) ==
    /\ tpc[t] = "m_y"
    /\ IF locked_position = NoPos
       THEN /\ tpc' = [tpc EXCEPT ![t] = "check"]
            /\ tx' = [tx EXCEPT ![t] = 0]
            /\ ty' = [ty EXCEPT ![t] = 0]
       ELSE /\ ty' = [ty EXCEPT ![t] = locked_position[2] + ty[t]]
            /\ tpc' = [tpc EXCEPT ![t] = "m_click"]
            /\ UNCHANGED tx
    /\ UNCHANGED <<schedVars, mouseVars, appVars, dispVars, envVars, nCreated, td,
                   callerVars, histVars, hkVars, uiVars>>

\* Line 130: pyautogui.click(x=target_x, y=target_y) clicks at the target.
ClickIssue(t) ==
    /\ tpc[t] = "m_click"
    /\ last_click' = <<tx[t], ty[t]>>
    /\ tpc' = [tpc EXCEPT ![t] = "check"]
    /\ tx' = [tx EXCEPT ![t] = 0]
    /\ ty' = [ty EXCEPT ![t] = 0]
    /\ UNCHANGED <<schedVars, mouseVars, appVars, dispVars, pointer, nCreated, td,
                   callerVars, histVars, hkVars, uiVars>>

\* Lines 130-131: pyautogui.click raises; control goes to the handler of
\* click_at_locked_position.
ClickFault(t) ==
    /\ tpc[t] = "m_click"
    /\ tpc' = [tpc EXCEPT ![t] = "m_except"]
    /\ tx' = [tx EXCEPT ![t] = 0]
    /\ ty' = [ty EXCEPT ![t] = 0]
    /\ UNCHANGED <<schedVars, mouseVars, appVars, dispVars, envVars, nCreated, td,
                   callerVars, histVars, hkVars, uiVars>>

\* ClickCaught without the two try/except blocks: the exception ends the
\* loop thread.
ClickCaught_Fatal(t) ==
    /\ tpc[t] = "m_except"
    /\ tpc' = [tpc EXCEPT ![t] = "dead"]
    /\ UNCHANGED <<schedVars, mouseVars, appVars, dispVars, envVars, tx, ty,
                   nCreated, td, callerVars, histVars, hkVars, uiVars>>

\* Lines 131-134, then click_scheduler.py line 164 returns and the loop goes
\* to its next iteration: the handler swallows the exception.
ClickCaught(t) ==
    /\ tpc[t] = "m_except"
    /\ tpc' = [tpc EXCEPT ![t] = "check"]
    /\ UNCHANGED <<schedVars, mouseVars, appVars, dispVars, envVars, tx, ty,
                   nCreated, td, callerVars, histVars, hkVars, uiVars>>

\* --------------------------------------- MouseController.set_offset_range
\* NewOffset without the upper clamp of line 147.
NewOffset_NoCap(v, cur) ==
    IF v = NonNumeric THEN cur ELSE Max(0, v[1])

\* Lines 143-147: the radius set_offset_range stores for the argument v when
\* the stored radius is cur; int() of a non-convertible argument raises
\* TypeError or ValueError and the method returns.
NewOffset(v, cur) ==
    IF v = NonNumeric THEN cur ELSE Max(0, Min(OFFSET_CAP, v[1]))

\* -------------------------------------------------------------- the user
\* The user moves the pointer to p; pyautogui.position() (mouse_controller.py
\* line 77) reports where it is.  Nothing else reads the pointer, so the
\* moves followed are those made just before that read.
MovePointer(p) ==
    /\ \E c \in Callers : pc[c] = "t_lock"
    /\ p # pointer
    /\ pointer' = p
    /\ UNCHANGED <<schedVars, mouseVars, appVars, dispVars, last_click,
                   threadVars, callerVars, histVars, hkVars, uiVars>>

\* ------------------------------------------ ClickClickApp.toggle_clicking
\* ToggleBegin whose deactivation goes to unlock_position() without
\* calling click_scheduler.stop() first.
ToggleBegin_UnlockFirst(c) ==
    /\ pc[c] = "idle"
    /\ budget > 0
    /\ budget' = budget - 1
    /\ Goto(c, IF app_is_active THEN "d_unlock" ELSE "t_lock")
    /\ call' = [call EXCEPT ![c] =
                  [NoCall EXCEPT !.path = IF app_is_active THEN "deactivate"
                                          ELSE "activate"]]
    /\ UNCHANGED <<schedVars, mouseVars, appVars, dispVars, envVars,
                   threadVars, jt, histVars, hkVars, uiVars>>

\* Line 79: if not self.is_active.
ToggleBegin(c) ==
    /\ pc[c] = "idle"
    /\ budget > 0
    /\ budget' = budget - 1
    /\ Goto(c, IF app_is_active THEN "d_stop" ELSE "t_lock")
    /\ call' = [call EXCEPT ![c] =
                  [NoCall EXCEPT !.path = IF app_is_active THEN "deactivate"
                                          ELSE "activate"]]
    /\ UNCHANGED <<schedVars, mouseVars, appVars, dispVars, envVars,
                   threadVars, jt, histVars, hkVars, uiVars>>

\* ToggleLock that reads the pointer but stores a position shifted by one
\* pixel.
ToggleLock_Shifted(c) ==
    /\ pc[c] = "t_lock"
    /\ \E captured \in BOOLEAN :
         /\ locked_position' = IF captured THEN <<pointer[1] + 1, pointer[2]>>
                                ELSE locked_position
         /\ call' = [call EXCEPT ![c] =
                       [Mark(c, "lock", ~captured) EXCEPT
                          !.cap = IF captured THEN pointer ELSE NoPos]]
    /\ Goto(c, "t_mirror")
    /\ UNCHANGED <<schedVars, offset_range, appVars, dispVars, envVars,
                   threadVars, jt, histVars, budget, hkVars, uiVars>>

\* Line 83 and MouseController.lock_current_position (lines 76-91): the
\* pointer is wherever the user has put it; its position is stored, or
\* pyautogui.position() raises and the exception is swallowed inside
\* lock_current_position.  call[c].cap keeps what pyautogui.position() gave.
ToggleLock(c) ==
    /\ pc[c] = "t_lock"
    /\ \E captured \in BOOLEAN :
         /\ locked_position' = IF captured THEN pointer ELSE locked_position
         /\ call' = [call EXCEPT ![c] =
                       [Mark(c, "lock", ~captured) EXCEPT
                          !.cap = IF captured THEN pointer ELSE NoPos]]
    /\ Goto(c, "t_mirror")
    /\ UNCHANGED <<schedVars, offset_range, appVars, dispVars, envVars,
                   threadVars, jt, histVars, budget, hkVars, uiVars>>

\* Line 84: self.locked_position = self.mouse_controller.locked_position;
\* then line 87 calls click_scheduler.start().
ToggleMirror(c) ==
    /\ pc[c] = "t_mirror"
    /\ app_locked_position' = locked_position
    /\ Goto(c, "t_start")
    /\ UNCHANGED <<schedVars, mouseVars, app_is_active, dispVars, envVars,
                   threadVars, jt, call, histVars, budget, hkVars, uiVars>>

\* Line 90 and StatusIndicator.show_active (lines 64-71): _is_active is set,
\* then root.after posts the colour change and may raise.
ToggleShowActive(c) ==
    /\ pc[c] = "t_show_active"
    /\ ind_is_active' = TRUE
    /\ \E posted \in BOOLEAN :
         /\ call' = [call EXCEPT ![c] = Mark(c, "show_active", ~posted)]
         /\ Goto(c, IF posted THEN "t_status" ELSE "r_stop")
    /\ UNCHANGED <<schedVars, mouseVars, appVars, gui_status, eta, envVars,
                   threadVars, jt, histVars, budget, hkVars, uiVars>>

\* Line 92: self.gui.update_status(True, self.locked_position).
ToggleStatusActive(c) ==
    /\ pc[c] = "t_status"
    /\ gui_status' = <<TRUE, app_locked_position>>
    /\ ui_queue' = Append(ui_queue, <<TRUE, app_locked_position>>)
    /\ UNCHANGED ui_shown
    /\ call' = [call EXCEPT ![c] = Mark(c, "status_active", FALSE)]
    /\ Goto(c, "t_set")
    /\ UNCHANGED <<schedVars, mouseVars, appVars, ind_is_active,
                   eta, envVars, threadVars, jt, histVars, budget, hkVars>>

\* Line 93: self.is_active = True.
ToggleSetActive(c) ==
    /\ pc[c] = "t_set"
    /\ app_is_active' = TRUE
    /\ Finish(c)
    /\ UNCHANGED <<schedVars, mouseVars, app_locked_position, dispVars,
                   envVars, threadVars, jt, histVars, budget, hkVars, uiVars>>

\* Lines 100-103 (after the stop() of lines 96-99): unlock_position().
RollbackUnlock(c) ==
    /\ pc[c] = "r_unlock"
    /\ locked_position' = NoPos
    /\ call' = [call EXCEPT ![c] = Mark(c, "unlock", FALSE)]
    /\ Goto(c, "r_show")
    /\ UNCHANGED <<schedVars, offset_range, appVars, dispVars, envVars,
                   threadVars, jt, histVars, budget, hkVars, uiVars>>

\* Lines 104-107 and StatusIndicator.show_inactive (lines 73-81).
RollbackShowInactive(c) ==
    /\ pc[c] = "r_show"
    /\ ind_is_active' = FALSE
    /\ \E posted \in BOOLEAN :
         call' = [call EXCEPT ![c] = Mark(c, "show_inactive", ~posted)]
    /\ Goto(c, "r_status")
    /\ UNCHANGED <<schedVars, mouseVars, appVars, gui_status, eta, envVars,
                   threadVars, jt, histVars, budget, hkVars, uiVars>>

\* Lines 108-111: self.gui.update_status(False, None).
RollbackStatus(c) ==
    /\ pc[c] = "r_status"
    /\ gui_status' = <<FALSE, NoPos>>
    /\ ui_queue' = Append(ui_queue, <<FALSE, NoPos>>)
    /\ UNCHANGED ui_shown
    /\ call' = [call EXCEPT ![c] = Mark(c, "status_inactive", FALSE)]
    /\ Goto(c, "r_clear")
    /\ UNCHANGED <<schedVars, mouseVars, appVars, ind_is_active,
                   eta, envVars, threadVars, jt, histVars, budget, hkVars>>

\* Lines 112-113: self.locked_position = None; self.is_active = False.
RollbackClear(c) ==
    /\ pc[c] = "r_clear"
    /\ app_locked_position' = NoPos
    /\ app_is_active' = FALSE
    /\ Finish(c)
    /\ UNCHANGED <<schedVars, mouseVars, dispVars, envVars, threadVars, jt,
                   histVars, budget, hkVars, uiVars>>

\* Lines 122-127 (after the stop() of lines 116-120): unlock_position();
\* self.locked_position = None.
DeactUnlock(c) ==
    /\ pc[c] = "d_unlock"
    /\ locked_position' = NoPos
    /\ app_locked_position' = NoPos
    /\ call' = [call EXCEPT ![c] = Mark(c, "unlock", FALSE)]
    /\ Goto(c, "d_show")
    /\ UNCHANGED <<schedVars, offset_range, app_is_active, dispVars, envVars,
                   threadVars, jt, histVars, budget, hkVars, uiVars>>

\* DeactShowInactive without its try/except: an exception from
\* show_inactive leaves toggle_clicking.
DeactShowInactive_Propagates(c) ==
    /\ pc[c] = "d_show"
    /\ ind_is_active' = FALSE
    /\ \E posted \in BOOLEAN :
         IF posted
         THEN /\ call' = [call EXCEPT ![c] = Mark(c, "show_inactive", FALSE)]
              /\ Goto(c, "d_status")
         ELSE Finish(c)
    /\ UNCHANGED <<schedVars, mouseVars, appVars, gui_status, eta, envVars,
                   threadVars, jt, histVars, budget, hkVars, uiVars>>

\* Lines 129-133 and StatusIndicator.show_inactive (lines 73-81).
DeactShowInactive(c) ==
    /\ pc[c] = "d_show"
    /\ ind_is_active' = FALSE
    /\ \E posted \in BOOLEAN :
         call' = [call EXCEPT ![c] = Mark(c, "show_inactive", ~posted)]
    /\ Goto(c, "d_status")
    /\ UNCHANGED <<schedVars, mouseVars, appVars, gui_status, eta, envVars,
                   threadVars, jt, histVars, budget, hkVars, uiVars>>

\* Lines 134-137: self.gui.update_status(False, None).
DeactStatus(c) ==
    /\ pc[c] = "d_status"
    /\ gui_status' = <<FALSE, NoPos>>
    /\ ui_queue' = Append(ui_queue, <<FALSE, NoPos>>)
    /\ UNCHANGED ui_shown
    /\ call' = [call EXCEPT ![c] = Mark(c, "status_inactive", FALSE)]
    /\ Goto(c, "d_set")
    /\ UNCHANGED <<schedVars, mouseVars, appVars, ind_is_active,
                   eta, envVars, threadVars, jt, histVars, budget, hkVars>>

\* Line 138: self.is_active = False.
DeactSetIdle(c) ==
    /\ pc[c] = "d_set"
    /\ app_is_active' = FALSE
    /\ call' = [call EXCEPT ![c] = Mark(c, "set_idle", FALSE)]
    /\ Goto(c, "d_eta")
    /\ UNCHANGED <<schedVars, mouseVars, app_locked_position, dispVars,
                   envVars, threadVars, jt, histVars, budget, hkVars, uiVars>>

\* Line 139 and _handle_next_delay (lines 172-178): the countdown is cleared;
\* an exception is swallowed inside _handle_next_delay.
DeactEta(c) ==
    /\ pc[c] = "d_eta"
    /\ eta' = "cleared"
    /\ Finish(c)
    /\ UNCHANGED <<schedVars, mouseVars, appVars, ind_is_active,
                   gui_status, envVars, threadVars, jt, histVars, budget,
                   hkVars, uiVars>>

\* --------------------------------------- ClickClickApp.update_delay_range
\* Line 286 and set_delay_range (lines 202-210): both bounds are replaced
\* under the state lock.
UpdateBegin(c, a, b) ==
    /\ pc[c] = "idle"
    /\ budget > 0
    /\ budget' = budget - 1
    /\ min_delay' = ClampedRange(a, b)[1]
    /\ max_delay' = ClampedRange(a, b)[2]
    /\ call' = [call EXCEPT ![c] = [NoCall EXCEPT !.path = "update"]]
    /\ Goto(c, "u_check")
    /\ UNCHANGED <<sched_is_active, sched_thread, mouseVars, appVars,
                   dispVars, envVars, threadVars, jt, histVars, hkVars, uiVars>>

\* Line 288: if self.is_active, stop() then start() (lines 289-296), every
\* exception swallowed.
UpdateCheck(c) ==
    /\ pc[c] = "u_check"
    /\ IF app_is_active
       THEN Goto(c, "u_stop") /\ UNCHANGED call
       ELSE Finish(c)
    /\ UNCHANGED <<schedVars, mouseVars, appVars, dispVars, envVars,
                   threadVars, jt, histVars, budget, hkVars, uiVars>>

\* -------------------------------------- ClickClickApp.update_offset_range
\* Lines 304-309: mouse_controller.set_offset_range(rng) stores the radius;
\* gui.reflect_offset_range only posts a display event; every exception is
\* swallowed.
UpdateOffsetRange(c, v) ==
    /\ pc[c] = "idle"
    /\ budget > 0
    /\ budget' = budget - 1
    /\ offset_range' = NewOffset(v, offset_range)
    /\ UNCHANGED <<schedVars, locked_position, appVars, dispVars, envVars,
                   threadVars, pc, spc, jt, call, histVars, hkVars, uiVars>>

\* ------------------------------------------- direct scheduler calls
\* A caller calls ClickScheduler.start() itself.
DirectStart(c) ==
    /\ pc[c] = "idle"
    /\ budget > 0
    /\ budget' = budget - 1
    /\ Goto(c, "x_start")
    /\ call' = [call EXCEPT ![c] = [NoCall EXCEPT !.path = "start"]]
    /\ UNCHANGED <<schedVars, mouseVars, appVars, dispVars, envVars,
                   threadVars, jt, histVars, hkVars, uiVars>>

\* A caller calls ClickScheduler.stop() itself.
DirectStop(c) ==
    /\ pc[c] = "idle"
    /\ budget > 0
    /\ budget' = budget - 1
    /\ Goto(c, "x_stop")
    /\ call' = [call EXCEPT ![c] = [NoCall EXCEPT !.path = "stop"]]
    /\ UNCHANGED <<schedVars, mouseVars, appVars, dispVars, envVars,
                   threadVars, jt, histVars, hkVars, uiVars>>

\* A caller calls ClickScheduler.set_delay_range(x, y) (lines 201-210): the
\* new pair is computed from the arguments alone and both bounds are stored
\* under the state lock; a rejected argument returns before the store.
DirectSetDelayRange(c, x, y) ==
    /\ pc[c] = "idle"
    /\ budget > 0
    /\ budget' = budget - 1
    /\ min_delay' = NewRange(x, y, <<min_delay, max_delay>>)[1]
    /\ max_delay' = NewRange(x, y, <<min_delay, max_delay>>)[2]
    /\ Goto(c, "x_returned")
    /\ call' = [call EXCEPT ![c] =
                  [NoCall EXCEPT !.path = "set_delay_range",
                                 !.done = IF x = NonNumeric \/ y = NonNumeric
                                          THEN {"rejected"} ELSE {"stored"}]]
    /\ UNCHANGED <<sched_is_active, sched_thread, mouseVars, appVars,
                   dispVars, envVars, threadVars, jt, histVars, hkVars, uiVars>>

\* A caller calls ClickScheduler.get_status() itself.
DirectStatus(c) ==
    /\ pc[c] = "idle"
    /\ budget > 0
    /\ budget' = budget - 1
    /\ Goto(c, "x_status")
    /\ call' = [call EXCEPT ![c] = [NoCall EXCEPT !.path = "status"]]
    /\ UNCHANGED <<schedVars, mouseVars, appVars, dispVars, envVars,
                   threadVars, jt, histVars, hkVars, uiVars>>

\* The direct call has returned or raised; the caller goes on.
DirectDone(c) ==
    /\ pc[c] \in {"x_returned", "x_raised"}
    /\ Finish(c)
    /\ UNCHANGED <<schedVars, mouseVars, appVars, dispVars, envVars,
                   threadVars, jt, budget, histVars, hkVars, uiVars>>

\* ------------------------------------------------ GUIWindow event pump
\* _drain_queue (gui_window.py lines 647-656), run by the Tk main thread
\* between its handlers: the oldest posted callback is taken from the queue
\* and called; for a status update that is _apply_status_update (lines
\* 924-945), which sets the labels and _is_running.
DrainOne ==
    /\ pc["ui"] = "idle"
    /\ ui_queue # <<>>
    /\ ui_shown' = Head(ui_queue)
    /\ ui_queue' = Tail(ui_queue)
    /\ UNCHANGED <<schedVars, mouseVars, appVars, dispVars, envVars,
                   threadVars, callerVars, histVars, hkVars>>

\* ----------------------------------------------------------- HotkeyHandler
\* Everything but the hotkey handler and the call budget.
coreVars == <<schedVars, mouseVars, appVars, dispVars, envVars, threadVars,
              pc, spc, jt, call, histVars, uiVars>>

Binding == <<hotkey_vk, hotkey_char, hotkey_name>>

\* Lines 132-135: int(vk) if vk is not None else None, None when int() raises.
NormVk(v) == IF Len(v) = 1 THEN v ELSE Unset
\* Lines 136-139: a str of length 1, else None.
NormChar(ch) == IF Len(ch) = 1 THEN ch ELSE Unset
\* Lines 140-143: a str that starts with "Key.", else None.
NormName(n) == IF Len(n) = 2 /\ n[1] = "Key." THEN n ELSE Unset
\* The binding set_hotkey(a[1], a[2], a[3]) leaves when it has returned.
NormBinding(a) == <<NormVk(a[1]), NormChar(a[2]), NormName(a[3])>>

\* The complete bindings in force now: the stored one, or the one before
\* and the one after the set_hotkey in flight.
CompleteBindings ==
    IF hpc = "idle" THEN {Binding} ELSE {harg[1], NormBinding(harg[2])}

\* str.lower() on the characters of the key events and bindings.
Lower(ch) == IF ch = "X" THEN "x" ELSE ch

\* Lines 166-182: the verdict of _on_press on event e when the binding is b
\* during the whole call.
IsHotkeyMatch(b, e) ==
    IF e.kind = "code"
    THEN \/ b[1] # Unset /\ e.vk = b[1]
         \/ /\ b[2] # Unset /\ e.char # Unset
            /\ Lower(e.char[1]) = Lower(b[2][1])
    ELSE e.kind = "key" /\ b[3] # Unset /\ e.str = b[3]

\* Line 133 (or 135): set_hotkey stores the platform code.
SetHotkeyVk(a) ==
    /\ hpc = "idle"
    /\ budget > 0
    /\ budget' = budget - 1
    /\ hotkey_vk' = NormVk(a[1])
    /\ hpc' = "h_char"
    /\ harg' = <<Binding, a>>
    /\ kseen' = IF kpc = "idle" THEN kseen ELSE kseen \cup {NormBinding(a)}
    /\ UNCHANGED <<coreVars, hotkey_char, hotkey_name, hk_listener, lstate,
                   kpc, kev, kown, kfaulted, klast, hk_last>>

\* Lines 136-139: then the character.
SetHotkeyChar ==
    /\ hpc = "h_char"
    /\ hotkey_char' = NormChar(harg[2][2])
    /\ hpc' = "h_name"
    /\ UNCHANGED <<coreVars, budget, hotkey_vk, hotkey_name, hk_listener,
                   lstate, kpc, kev, kown, harg, kseen, kfaulted, klast,
                   hk_last>>

\* Lines 140-143: then the symbolic name; set_hotkey returns.
SetHotkeyName ==
    /\ hpc = "h_name"
    /\ hotkey_name' = NormName(harg[2][3])
    /\ hpc' = "idle"
    /\ harg' = <<>>
    /\ UNCHANGED <<coreVars, budget, hotkey_vk, hotkey_char, hk_listener,
                   lstate, kpc, kev, kown, kseen, kfaulted, klast, hk_last>>

\* The Listener self._listener names when start() reaches line 77: the
\* stored one, or the one lines 71-74 create.
StartTarget ==
    IF hk_listener # NoListener THEN hk_listener
    ELSE CHOOSE l \in Listeners :
           lstate[l] = "unborn" /\ \A m \in Listeners : m < l => lstate[m] # "unborn"

\* HkStart without the try/except of lines 70, 81-85: a failure of
\* Listener.start() reaches the caller.
HkStart_NoTry ==
    /\ budget > 0
    /\ budget' = budget - 1
    /\ hk_listener # NoListener \/ \E l \in Listeners : lstate[l] = "unborn"
    /\ hk_listener' = StartTarget
    /\ IF lstate[StartTarget] = "running"
       THEN /\ hk_last' = [hk_last EXCEPT !.op = "start"]
            /\ UNCHANGED lstate
       ELSE IF lstate[StartTarget] = "stopped"
       THEN /\ hk_last' = [hk_last EXCEPT !.op = "start", !.raised = TRUE]
            /\ UNCHANGED lstate
       ELSE \E ok \in BOOLEAN :
              /\ lstate' = [lstate EXCEPT ![StartTarget] =
                              IF ok THEN "running" ELSE "created"]
              /\ hk_last' = [op |-> "start", raised |-> ~ok,
                             clean |-> hk_last.clean /\ ok]
    /\ UNCHANGED <<coreVars, hotkey_vk, hotkey_char, hotkey_name, kpc, kev,
                   kown, hpc, harg, kseen, kfaulted, klast>>

\* Lines 70-85: start() creates the Listener if there is none and starts it
\* unless it is running; Listener.start() may fail, and does fail on a
\* Listener that was started before (a thread starts only once); every
\* exception is swallowed.
HkStart ==
    /\ budget > 0
    /\ budget' = budget - 1
    /\ hk_listener # NoListener \/ \E l \in Listeners : lstate[l] = "unborn"
    /\ hk_listener' = StartTarget
    /\ IF lstate[StartTarget] \in {"running", "stopped"}
       THEN /\ hk_last' = [hk_last EXCEPT !.op = "start"]
            /\ UNCHANGED lstate
       ELSE \E ok \in BOOLEAN :
              /\ lstate' = [lstate EXCEPT ![StartTarget] =
                              IF ok THEN "running" ELSE "created"]
              /\ hk_last' = [op |-> "start", raised |-> FALSE,
                             clean |-> hk_last.clean /\ ok]
    /\ UNCHANGED <<coreVars, hotkey_vk, hotkey_char, hotkey_name, kpc, kev,
                   kown, hpc, harg, kseen, kfaulted, klast>>

\* HkStop without `self._listener = None` (line 119).
HkStop_KeepHandle ==
    /\ budget > 0
    /\ budget' = budget - 1
    /\ IF hk_listener = NoListener
       THEN /\ hk_last' = [hk_last EXCEPT !.op = "stop"]
            /\ UNCHANGED lstate
       ELSE \E ok \in BOOLEAN :
              /\ lstate' = [lstate EXCEPT ![hk_listener] =
                              IF ok THEN "stopped" ELSE @]
              /\ hk_last' = [op |-> "stop", raised |-> FALSE,
                             clean |-> hk_last.clean /\ ok]
    /\ UNCHANGED <<coreVars, hotkey_vk, hotkey_char, hotkey_name, hk_listener,
                   kpc, kev, kown, hpc, harg, kseen, kfaulted, klast>>

\* Lines 96-121: stop() does nothing without a Listener; else it calls
\* Listener.stop() and join(0.5), swallows what they raise, and forgets the
\* Listener in the finally clause.  A Listener whose stop() raised keeps the
\* state it had.
HkStop ==
    /\ budget > 0
    /\ budget' = budget - 1
    /\ IF hk_listener = NoListener
       THEN /\ hk_last' = [hk_last EXCEPT !.op = "stop"]
            /\ UNCHANGED <<lstate, hk_listener>>
       ELSE /\ \E ok \in BOOLEAN :
                 /\ lstate' = [lstate EXCEPT ![hk_listener] =
                                 IF ok THEN "stopped" ELSE @]
                 /\ hk_last' = [op |-> "stop", raised |-> FALSE,
                                clean |-> hk_last.clean /\ ok]
            /\ hk_listener' = NoListener
    /\ UNCHANGED <<coreVars, hotkey_vk, hotkey_char, hotkey_name, kpc, kev,
                   kown, hpc, harg, kseen, kfaulted, klast>>

\* The listener thread moves to position p of _on_press.
KeyGoto(p) ==
    /\ kpc' = p
    /\ UNCHANGED <<coreVars, budget, hotkey_vk, hotkey_char, hotkey_name,
                   hk_listener, lstate, kev, kown, hpc, harg, kseen, kfaulted,
                   klast, hk_last>>

\* _on_press returns with outcome r: the listener thread waits for the next
\* key event.
KeyReturn(r) ==
    /\ kpc' = "idle"
    /\ kev' = NoEvent
    /\ kown' = NoListener
    /\ kseen' = {}
    /\ klast' = [ev |-> kev, res |-> r, seen |-> kseen, by |-> kown]
    /\ UNCHANGED <<coreVars, budget, hotkey_vk, hotkey_char, hotkey_name,
                   hk_listener, hpc, harg, hk_last>>

\* A running Listener calls _on_press(e); line 168 tells a KeyCode from the
\* rest.  Key events are handled one at a time.
KeyDeliver(l, e) ==
    /\ lstate[l] = "running"
    /\ kpc = "idle"
    /\ budget > 0
    /\ budget' = budget - 1
    /\ kev' = e
    /\ kown' = l
    /\ kseen' = CompleteBindings
    /\ kpc' = IF e.kind = "code" THEN "k_vk_test" ELSE "k_name_test"
    /\ UNCHANGED <<coreVars, hotkey_vk, hotkey_char, hotkey_name, hk_listener,
                   lstate, hpc, harg, kfaulted, klast, hk_last>>

\* KeyVkTest without `self._hotkey_vk is not None`.
KeyVkTest_NoNoneCheck ==
    /\ kpc = "k_vk_test"
    /\ KeyGoto("k_vk_cmp")

\* Line 170, first operand: self._hotkey_vk is not None.
KeyVkTest ==
    /\ kpc = "k_vk_test"
    /\ KeyGoto(IF hotkey_vk # Unset THEN "k_vk_cmp" ELSE "k_char_test")

\* KeyVkCompare taking any event that carries a platform code.
KeyVkCompare_AnyCode ==
    /\ kpc = "k_vk_cmp"
    /\ KeyGoto(IF kev.vk # Unset THEN "k_call" ELSE "k_char_test")

\* Line 170, last operand: key.vk == self._hotkey_vk, with another read of
\* the attribute.
KeyVkCompare ==
    /\ kpc = "k_vk_cmp"
    /\ KeyGoto(IF kev.vk = hotkey_vk THEN "k_call" ELSE "k_char_test")

\* Line 172: self._hotkey_char is not None and the event has a character.
KeyCharTest ==
    /\ kpc = "k_char_test"
    /\ KeyGoto(IF hotkey_char # Unset /\ kev.char # Unset
               THEN "k_char_cmp" ELSE "k_miss")

\* Line 174: the lower-cased strings are compared; str(None) is "None",
\* which no single character equals.
KeyCharCompare ==
    /\ kpc = "k_char_cmp"
    /\ KeyGoto(IF /\ hotkey_char # Unset
                  /\ Lower(kev.char[1]) = Lower(hotkey_char[1])
               THEN "k_call" ELSE "k_miss")

\* Line 180: self._hotkey_name is not None.
KeyNameTest ==
    /\ kpc = "k_name_test"
    /\ KeyGoto(IF hotkey_name # Unset THEN "k_name_cmp" ELSE "k_miss")

\* Line 181: str(key) == self._hotkey_name; str() of a malformed event
\* raises.
KeyNameCompare ==
    /\ kpc = "k_name_cmp"
    /\ KeyGoto(IF kev.kind = "bad" THEN "k_except"
               ELSE IF kev.str = hotkey_name THEN "k_call" ELSE "k_miss")

\* Lines 184, 188: no match; _on_press returns.
KeyMiss ==
    /\ kpc = "k_miss"
    /\ KeyReturn("missed")
    /\ UNCHANGED <<lstate, kfaulted>>

\* Line 187: self.toggle_callback() is called; it returns or raises.
KeyCall ==
    /\ kpc = "k_call"
    /\ \/ KeyReturn("called") /\ UNCHANGED <<lstate, kfaulted>>
       \/ /\ kpc' = "k_raised"
          /\ UNCHANGED <<coreVars, budget, hotkey_vk, hotkey_char, hotkey_name,
                         hk_listener, lstate, kev, kown, hpc, harg, kseen,
                         kfaulted, klast, hk_last>>

\* KeyCaught without the handlers of lines 191-200: the exception leaves
\* _on_press and ends the listener thread.
KeyCaught_Fatal ==
    /\ kpc \in {"k_except", "k_raised"}
    /\ KeyReturn(IF kpc = "k_raised" THEN "raised" ELSE "faulted")
    /\ kfaulted' = kfaulted \cup {kown}
    /\ lstate' = [lstate EXCEPT ![kown] = "stopped"]

\* Lines 191-200: the exception is swallowed; _on_press returns.
KeyCaught ==
    /\ kpc \in {"k_except", "k_raised"}
    /\ KeyReturn(IF kpc = "k_raised" THEN "raised" ELSE "faulted")
    /\ kfaulted' = kfaulted \cup {kown}
    /\ UNCHANGED lstate

\* ---------------------------------------------------------- specifications
SchedulerStep(c) ==
    \/ StartCheck(c) \/ StartCreate(c) \/ StartLaunch(c)
    \/ StartRollbackFlag(c) \/ StartRollbackHandle(c)
    \/ StopCheck(c) \/ StopHandle(c) \/ StopJoin(c) \/ StopWait(c)
    \/ StopAlive(c) \/ StopClear(c)

ToggleStep(c) ==
    \/ ToggleBegin(c) \/ ToggleLock(c) \/ ToggleMirror(c)
    \/ ToggleShowActive(c) \/ ToggleStatusActive(c) \/ ToggleSetActive(c)
    \/ RollbackUnlock(c) \/ RollbackShowInactive(c) \/ RollbackStatus(c)
    \/ RollbackClear(c)
    \/ DeactUnlock(c) \/ DeactShowInactive(c) \/ DeactStatus(c)
    \/ DeactSetIdle(c) \/ DeactEta(c)

UpdateStep(c) ==
    \/ \E r \in UpdateInputs : UpdateBegin(c, r[1], r[2])
    \/ UpdateCheck(c)

StatusStep(c) ==
    \/ StatusActive(c) \/ StatusAliveTest(c) \/ StatusAlive(c)
    \/ StatusNameTest(c) \/ StatusName(c) \/ StatusMin(c) \/ StatusMax(c)

DirectStep(c) ==
    \/ DirectStart(c) \/ DirectStop(c) \/ DirectStatus(c) \/ DirectDone(c)
    \/ \E x \in DelayArgs, y \in DelayArgs : DirectSetDelayRange(c, x, y)

OffsetStep(c) == \E v \in OffsetArgs : UpdateOffsetRange(c, v)

SetHotkeyStep ==
    \/ \E a \in HotkeyArgs : SetHotkeyVk(a)
    \/ SetHotkeyChar \/ SetHotkeyName

KeyStep ==
    \/ \E l \in Listeners, e \in KeyEvents : KeyDeliver(l, e)
    \/ KeyVkTest \/ KeyVkCompare \/ KeyCharTest \/ KeyCharCompare
    \/ KeyNameTest \/ KeyNameCompare
    \/ KeyMiss \/ KeyCall \/ KeyCaught

LoopStep(t) ==
    \/ LoopCheck(t) \/ LoopSleep(t) \/ LoopWake(t) \/ ClickCheck(t)

ClickStep(t) ==
    \/ ClickReadX(t) \/ ClickReadY(t) \/ ClickIssue(t) \/ ClickFault(t)
    \/ ClickCaught(t)

\* The hotkey listener toggles; the Tk main thread toggles and applies the
\* delay settings; the loop threads run in parallel with both.
Init == Constructed /\ budget = MaxCalls

Next ==
    \/ \E c \in Callers : SchedulerStep(c) \/ ToggleStep(c)
    \/ UpdateStep("ui")
    \/ \E t \in Threads : LoopStep(t) \/ ClickStep(t)

Spec == Init /\ [][Next]_vars

\* The Tk main thread is the only caller: controller calls are sequential;
\* the user moves the pointer in between.
InitSeq == Constructed /\ budget = MaxSeqCalls

NextSeq ==
    \/ SchedulerStep("ui") \/ ToggleStep("ui") \/ UpdateStep("ui")
    \/ \E p \in Points : MovePointer(p)
    \/ \E t \in Threads : LoopStep(t) \/ ClickStep(t)

SpecSeq == InitSeq /\ [][NextSeq]_vars

\* The scheduler on its own: two callers call start(), stop() and
\* set_delay_range() concurrently; no position is locked.
InitSched == Constructed /\ budget = MaxSchedCalls

NextSched ==
    \/ \E c \in Callers : SchedulerStep(c) \/ StatusStep(c) \/ DirectStep(c)
    \/ \E t \in Threads : LoopStep(t)

SpecSched == InitSched /\ [][NextSched]_vars

\* The Tk main thread toggles and applies the offset setting.
InitMouse == Constructed /\ budget = MaxMouseCalls

NextMouse ==
    \/ SchedulerStep("ui") \/ ToggleStep("ui") \/ OffsetStep("ui")
    \/ \E t \in Threads : LoopStep(t) \/ ClickStep(t)

SpecMouse == InitMouse /\ [][NextMouse]_vars

\* The hotkey handler: the main thread calls start() and stop(), the
\* capture thread of the GUI calls set_hotkey(), the listener threads handle
\* key events.
InitHotkey == Constructed /\ budget = MaxHotkeyOps

NextHotkey ==
    \/ HkStart \/ HkStop \/ SetHotkeyStep \/ KeyStep

SpecHotkey == InitHotkey /\ [][NextHotkey]_vars

\* The scheduler used by one caller: calls are sequential.
InitOne == Constructed /\ budget = MaxOneCalls

NextOne ==
    \/ SchedulerStep("ui") \/ StatusStep("ui") \/ DirectStep("ui")
    \/ \E t \in Threads : LoopStep(t)

SpecOne == InitOne /\ [][NextOne]_vars

\* The hotkey listener toggles; the Tk main thread runs the event pump of
\* the GUI window.
InitUi == Constructed /\ budget = MaxUiCalls

NextUi ==
    \/ SchedulerStep("hk") \/ ToggleStep("hk")
    \/ DrainOne
    \/ \E t \in Threads : LoopStep(t) \/ ClickStep(t)

SpecUi == InitUi /\ [][NextUi]_vars

\* The hotkey listener toggles while the Tk main thread calls start(),
\* stop(), set_delay_range() and get_status() on the scheduler.  Every
\* thread that can take a step is eventually scheduled: a caller inside a
\* call goes on, and so does each loop thread (time.sleep and the bounded
\* join return).
LiveStep(c) ==
    \/ SchedulerStep(c)
    \/ c = "hk" /\ ToggleStep(c)
    \/ c = "ui" /\ (StatusStep(c) \/ DirectStep(c))

ThreadStep(t) == LoopStep(t) \/ ClickStep(t)

InitLive == Constructed /\ budget = MaxLiveCalls

NextLive ==
    \/ \E c \in Callers : LiveStep(c)
    \/ \E t \in Threads : ThreadStep(t)

Fairness ==
    /\ \A c \in Callers : WF_vars(pc[c] # "idle" /\ LiveStep(c))
    /\ \A t \in Threads : WF_vars(ThreadStep(t))

SpecLive == InitLive /\ [][NextLive]_vars /\ Fairness

\* ------------------------------------------------------------------ claims
Live(t) == tpc[t] \notin {"unborn", "new", "dead"}
LiveThreads == {t \in Threads : Live(t)}

\* Caller c returns from its controller call in this step.
Returns(c) == pc[c] # "idle" /\ pc'[c] = "idle"

\* C1: once a stop() has returned, no pointer click is issued until a later
\* start() has set is_active again.
C1_NoClickAfterStop ==
    [][\A t \in Threads : ClickIssue(t) => ~stopReturned]_vars

\* C2: toggle_clicking is not reentrant: the hotkey worker and the display
\* surface are never inside toggle_clicking at the same time.
InToggle(c) == call[c].path \in {"activate", "deactivate"}
C2_ToggleSerialized == ~(InToggle("hk") /\ InToggle("ui"))

\* C3: whenever pyautogui.click is called, locked_position is not None at
\* that moment.
C3_ClickOnlyWhileLocked ==
    [][\A t \in Threads : ClickIssue(t) => locked_position # NoPos]_vars

\* C4: at most one _clicking_loop thread is live (started and not yet
\* exited) at any time.
C4_SingleLoopThread == Cardinality(LiveThreads) <= 1

\* C5: a toggle from Idle whose every step succeeds returns with the pointer
\* position it read stored in the position lock (and mirrored), the
\* scheduler running with a live loop thread, the indicator and the GUI
\* notified of (active, that position) and the application Active; the
\* toggle from Active returns with the scheduler stopped, the position lock
\* cleared, both collaborators notified inactive, the countdown cleared and
\* the application Idle.
C5_ToggleRoundTrip ==
    [][\A c \in Callers :
         (Returns(c) /\ call[c].fault = {}) =>
           /\ (call[c].path = "activate") =>
                /\ pc[c] = "t_set"
                /\ call[c].cap \in Points
                /\ locked_position' = call[c].cap
                /\ app_locked_position' = call[c].cap
                /\ sched_is_active'
                /\ sched_thread' \in Threads
                /\ tpc'[sched_thread'] \notin {"unborn", "new", "dead"}
                /\ ind_is_active'
                /\ gui_status' = <<TRUE, call[c].cap>>
                /\ app_is_active'
           /\ (call[c].path = "deactivate") =>
                /\ pc[c] = "d_eta"
                /\ ~sched_is_active'
                /\ locked_position' = NoPos
                /\ app_locked_position' = NoPos
                /\ ~ind_is_active'
                /\ gui_status' = <<FALSE, NoPos>>
                /\ eta' = "cleared"
                /\ ~app_is_active']_vars

\* The second toggle is about to return, every step of it having succeeded,
\* after a first toggle that made the application Active.
C5_Witness ==
    /\ pc["ui"] = "d_eta"
    /\ call["ui"].fault = {}
    /\ call["ui"].path = "deactivate"
    /\ ~sched_is_active
    /\ locked_position = NoPos
    /\ gui_status = <<FALSE, NoPos>>

\* C6: if a step of the Idle -> Active transition fails (position capture,
\* scheduler start, or the indicator notification), toggle returns with the
\* scheduler not running, the position unlocked, the collaborators notified
\* inactive and the application Idle.
ActivationFault(c) == call[c].fault \cap {"lock", "start", "show_active"} # {}
C6_ActivationAllOrNothing ==
    [][\A c \in Callers :
         (Returns(c) /\ call[c].path = "activate" /\ ActivationFault(c)) =>
           /\ ~sched_is_active'
           /\ locked_position' = NoPos
           /\ ~ind_is_active'
           /\ gui_status' = <<FALSE, NoPos>>
           /\ ~app_is_active']_vars

\* C7: once position capture has failed in a toggle, the scheduler is not
\* started and the application stays Idle.
C7_CaptureFailureBlocksStart ==
    \A c \in Callers :
      ("lock" \in call[c].fault) => (~sched_is_active /\ ~app_is_active)

\* C8: the Active -> Idle transition returns only from its last statement,
\* with every step attempted (stop, unlock, both notifications, the state
\* change) whether or not an earlier step raised, and leaves the application
\* Idle with the position unlocked.
C8_DeactivationCompletes ==
    [][\A c \in Callers :
         (Returns(c) /\ call[c].path = "deactivate") =>
           /\ pc[c] = "d_eta"
           /\ {"stop", "unlock", "show_inactive", "status_inactive", "set_idle"}
                \subseteq call[c].done
           /\ ~app_is_active'
           /\ locked_position' = NoPos
           /\ app_locked_position' = NoPos]_vars

\* A deactivation about to return although show_inactive raised.
C8_Witness ==
    /\ pc["ui"] = "d_eta"
    /\ "show_inactive" \in call["ui"].fault
    /\ "status_inactive" \in call["ui"].done
    /\ ~app_is_active

\* C9: within one toggle call, lock_current_position has returned before
\* start() is called, and stop() has returned before unlock_position() is
\* called, in the deactivation and in the rollback.
C9_CallOrdering ==
    \A c \in Callers :
      InToggle(c) =>
        /\ (pc[c] = "t_start" \/ "start" \in call[c].done)
              => "lock" \in call[c].done
        /\ (pc[c] \in {"r_unlock", "d_unlock"} \/ "unlock" \in call[c].done)
              => "stop" \in call[c].done

\* A rollback that has unlocked the position after a start() that raised.
C9_Witness ==
    /\ call["ui"].path = "activate"
    /\ "start" \in call["ui"].fault
    /\ "unlock" \in call["ui"].done

\* C10: start() on a running scheduler raises and leaves is_active true and
\* launches nothing; start() on a stopped scheduler sets is_active; at most
\* one start() has set is_active since it was last cleared, and before the
\* first clearing at most one loop thread has been created.
C10_StartStep(c) ==
    (spc[c] = "s_check" /\ spc'[c] # "s_check") =>
      IF sched_is_active
      THEN /\ sched_is_active'
           /\ spc'[c] = "none"
           /\ pc[c] = "x_start" => (pc'[c] = "x_raised"
                                    /\ "already_running" \in call'[c].fault)
           /\ UNCHANGED <<sched_thread, tpc, nCreated, td>>
      ELSE sched_is_active' /\ spc'[c] = "s_create"
\* The first two calls made were start(), both have come back, and is_active
\* has not been cleared since construction.
C10_TwoStartsBack ==
    /\ budget = MaxSchedCalls - 2
    /\ ~everCleared
    /\ \A c \in Callers :
         call[c].path = "start" /\ pc[c] \in {"x_returned", "x_raised"}
C10_StartAtomic ==
    /\ [](passed <= 1 /\ (~everCleared => nCreated <= 1))
    /\ [](C10_TwoStartsBack =>
            /\ Cardinality({c \in Callers : pc[c] = "x_returned"}) = 1
            /\ Cardinality(LiveThreads) = 1
            /\ sched_is_active)
    /\ [][\A c \in Callers : C10_StartStep(c)]_vars

\* A second start() has raised while the first one's loop thread runs.
C10_Witness ==
    \E c \in Callers :
      /\ pc[c] = "x_raised"
      /\ "already_running" \in call[c].fault
      /\ sched_is_active
      /\ Cardinality(LiveThreads) = 1
      /\ C10_TwoStartsBack

\* C11: a stop() that finds the scheduler not running returns at once,
\* without an exception, and leaves is_active, the delay bounds, the thread
\* handle and the threads as they were.
C11_StopStep(c) ==
    (spc[c] = "p_check" /\ ~sched_is_active /\ spc'[c] # "p_check") =>
      /\ spc'[c] = "none"
      /\ pc[c] = "x_stop" => pc'[c] = "x_returned"
      /\ call'[c].fault = {}
      /\ UNCHANGED <<sched_is_active, sched_thread, min_delay, max_delay, tpc>>
C11_StopNoOp == [][\A c \in Callers : C11_StopStep(c)]_vars

\* A stop() has returned on a scheduler whose is_active was never cleared:
\* it found the scheduler not running.
C11_Witness ==
    \E c \in Callers :
      /\ pc[c] = "x_returned"
      /\ call[c].path = "stop"
      /\ ~everCleared
      /\ ~sched_is_active

\* C12: a stop() that cleared is_active returns without an exception, and
\* only after its join has seen the loop thread exited or has timed out.
InStopBody(c) == spc[c] \in {"p_handle", "p_join", "p_wait", "p_alive", "p_clear"}
C12_StopStep(c) ==
    (InStopBody(c) /\ spc'[c] = "none") =>
      /\ pc[c] = "x_stop" => pc'[c] = "x_returned"
      /\ call[c].done \cap {"joined", "join_timeout"} # {}
C12_StopWaitsBounded == [][\A c \in Callers : C12_StopStep(c)]_vars

\* C13: the per-click wait does not run to its end once stop() has cleared
\* is_active: the wait never ends by the sampled delay expiring (the return
\* of time.sleep, the only way out of the wait) with is_active cleared.
C13_WaitInterruptible ==
    [][\A t \in Threads : LoopWake(t) => sched_is_active]_vars

\* C14: in every state the stored bounds satisfy floor <= min_delay <=
\* max_delay, whatever arguments set_delay_range was given, and the pair the
\* click loop reads to sample its delay satisfies the same.
BoundsOrdered == DELAY_FLOOR <= min_delay /\ min_delay <= max_delay
C14_BoundsOrdered ==
    /\ []BoundsOrdered
    /\ [][\A t \in Threads : LoopSleep(t) => BoundsOrdered]_vars

\* A loop thread has sampled its delay from a pair that set_delay_range
\* stored after raising an argument to the floor.
C14_Witness ==
    /\ min_delay = DELAY_FLOOR
    /\ max_delay = 50
    /\ \E t \in Threads : tpc[t] = "sleep"
    /\ \E c \in Callers : call[c].path = "set_delay_range"

\* C15: set_delay_range(min, max) with numeric arguments stores each
\* argument raised to the floor, the smaller one as min_delay and the larger
\* as max_delay, and a get_status() of the same caller reports is_active and
\* the stored pair, so that reported min <= reported max.
Floored(n) == IF n < DELAY_FLOOR THEN DELAY_FLOOR ELSE n
ExpectedRange(x, y) ==
    IF Floored(x[1]) <= Floored(y[1])
    THEN <<Floored(x[1]), Floored(y[1])>>
    ELSE <<Floored(y[1]), Floored(x[1])>>
C15_SetStep(c) ==
    \A x \in DelayArgs \ {NonNumeric}, y \in DelayArgs \ {NonNumeric} :
      DirectSetDelayRange(c, x, y) =>
        <<min_delay', max_delay'>> = ExpectedRange(x, y)
C15_StatusStep(c) ==
    (spc[c] = "g_max" /\ spc'[c] = "none") =>
      /\ pc'[c] = "x_returned"
      /\ call'[c].rep = <<sched_is_active, min_delay, max_delay>>
      /\ call'[c].rep[2] <= call'[c].rep[3]
C15_StatusReportsRange ==
    [][\A c \in Callers : C15_SetStep(c) /\ C15_StatusStep(c)]_vars

\* get_status has reported a pair that a set_delay_range call stored after
\* swapping its arguments or raising one to the floor.
C15_Witness ==
    /\ pc["ui"] = "x_returned"
    /\ call["ui"].path = "status"
    /\ Len(call["ui"].rep) = 3
    /\ call["ui"].rep[2] = DELAY_FLOOR
    /\ call["ui"].rep[3] = 200

\* C16: set_delay_range with a non-numeric argument in either position
\* returns without an exception and leaves both stored bounds, is_active and
\* the thread handle unchanged, also when the other argument is numeric.
C16_RejectStep(c) ==
    \A x \in DelayArgs, y \in DelayArgs :
      ((x = NonNumeric \/ y = NonNumeric) /\ DirectSetDelayRange(c, x, y)) =>
        /\ pc'[c] = "x_returned"
        /\ call'[c].fault = {}
        /\ UNCHANGED <<min_delay, max_delay, sched_is_active, sched_thread>>
C16_MalformedRejected == [][\A c \in Callers : C16_RejectStep(c)]_vars

\* A call with a non-numeric argument has returned and the bounds are still
\* the pair an earlier call stored.
C16_Witness ==
    \E c \in Callers :
      /\ pc[c] = "x_returned"
      /\ "rejected" \in call[c].done
      /\ min_delay = 50
      /\ max_delay = 200

\* C17: every get_status() call returns without an exception, and the
\* bounds it reports satisfy reported min <= reported max, also while other
\* callers run set_delay_range, start and stop.
InStatusBody(c) ==
    spc[c] \in {"g_active", "g_alive_test", "g_alive", "g_name_test",
                "g_name", "g_min", "g_max"}
C17_StatusStep(c) ==
    (InStatusBody(c) /\ spc'[c] = "none") =>
      /\ pc'[c] = "x_returned"
      /\ call'[c].rep[2] <= call'[c].rep[3]
C17_StatusSnapshot == [][\A c \in Callers : C17_StatusStep(c)]_vars

\* C18: an exception raised by pyautogui.click is caught: the loop thread
\* goes from the handler to its next iteration, and a loop thread exits only
\* from the check at the top of the loop, with is_active cleared.
C18_LoopStep(t) ==
    /\ ClickFault(t) => tpc'[t] = "m_except"
    /\ (tpc[t] = "m_except" /\ tpc'[t] # "m_except") => tpc'[t] = "check"
    /\ (tpc[t] # "dead" /\ tpc'[t] = "dead") =>
         (tpc[t] = "check" /\ ~sched_is_active)
C18_FaultCaught == [][\A t \in Threads : C18_LoopStep(t)]_vars

\* A click has raised on a running scheduler and the loop thread is in the
\* handler.
C18_Witness ==
    \E t \in Threads : tpc[t] = "m_except" /\ sched_is_active

\* C19: every click is issued at the locked position plus an offset whose
\* components lie in [-offset_range, offset_range]: at the moment of the
\* click a position is locked and the target is within that box around it.
Within(v, centre, r) == centre - r <= v /\ v <= centre + r
C19_ClickStep(t) ==
    ClickIssue(t) =>
      /\ locked_position # NoPos
      /\ Within(last_click'[1], locked_position[1], offset_range)
      /\ Within(last_click'[2], locked_position[2], offset_range)
C19_ClickInBox == [][\A t \in Threads : C19_ClickStep(t)]_vars

\* C20: the offset radius is always in [0, 50]; set_offset_range stores the
\* argument clamped into [0, 50], or leaves the radius unchanged when the
\* argument is not convertible, and changes neither the locked position, the
\* scheduler, nor a click target already computed.
ClampedOffset(n) == IF n < 0 THEN 0 ELSE IF n > OFFSET_CAP THEN OFFSET_CAP ELSE n
C20_OffsetStep(c) ==
    \A v \in OffsetArgs :
      UpdateOffsetRange(c, v) =>
        /\ offset_range' = IF v = NonNumeric THEN offset_range
                           ELSE ClampedOffset(v[1])
        /\ UNCHANGED <<locked_position, schedVars, tpc, tx, ty, last_click>>
C20_OffsetClamped ==
    /\ [](0 <= offset_range /\ offset_range <= OFFSET_CAP)
    /\ [][\A c \in Callers : C20_OffsetStep(c)]_vars

\* The radius has been clamped to the cap while a loop thread is inside
\* click_at_locked_position with its target computed.
C20_Witness ==
    /\ offset_range = OFFSET_CAP
    /\ locked_position # NoPos
    /\ \E t \in Threads : tpc[t] = "m_click"

\* C27: the next-delay observer is invoked with the sampled delay at the
\* start of each wait of the click loop: when a loop thread begins its
\* sleep, the value last pushed through _handle_next_delay is that delay,
\* neither nothing nor None.
C27_WaitStep(t) == LoopSleep(t) => eta' \notin {"unset", "cleared"}
C27_DelayObserved == [][\A t \in Threads : C27_WaitStep(t)]_vars

\* C30: the delay a loop iteration samples lies within the bounds stored at
\* that moment, those of the last set_delay_range, whether or not the
\* scheduler was restarted since.
C30_SampleStep(t) ==
    LoopSleep(t) => min_delay <= td'[t] /\ td'[t] <= max_delay
C30_LiveBounds == [][\A t \in Threads : C30_SampleStep(t)]_vars

\* The only thread ever created sleeps for a delay drawn from bounds that
\* set_delay_range stored after construction.
C30_Witness ==
    /\ nCreated = 1
    /\ \E t \in Threads :
         /\ tpc[t] = "sleep"
         /\ td[t] \notin {MIN_CLICK_DELAY, MAX_CLICK_DELAY}
         /\ td[t] \in {min_delay, max_delay}

\* C29: a loop thread that wakes from a wait during which is_active was
\* cleared does not go on to click: it takes the `continue` of the re-check,
\* from where the loop is left.
C29_WakeStep(t) == LoopWake(t) /\ t \in doomed => tpc'[t] = "check"
C29_NoClickAfterClearedWait == [][\A t \in Threads : C29_WakeStep(t)]_vars

\* C28: with offset radius 0 every click is requested at exactly the
\* position the toggle locked, and none is requested once the toggle that
\* deactivated has returned (the controller is Idle with no call in flight).
ControllerIdle == ~app_is_active /\ \A c \in Callers : pc[c] = "idle"
C28_ClickStep(t) ==
    ClickIssue(t) /\ offset_range = 0 =>
      /\ ~ControllerIdle
      /\ last_click' = app_locked_position
C28_EndToEnd == [][\A t \in Threads : C28_ClickStep(t)]_vars

\* The last key event handled ended in a call of the toggle callback.
Invoked == klast.res \in {"called", "raised"}
PlatformCode(k) == <<<<k>>, Unset, Unset>>
Unbound == <<Unset, Unset, Unset>>

\* C21: while the binding is PlatformCode(101), a key event invokes the
\* toggle callback if and only if it carries platform code 101: not an
\* event with code 102, not a character-only event.
C21_PlatformCodeMatch ==
    klast.seen = {PlatformCode(NUMPAD5_VK)} =>
      (Invoked <=> klast.ev.vk = <<NUMPAD5_VK>>)

\* Under PlatformCode(101) an event with code 101 has invoked the callback.
C21_Witness ==
    /\ klast.seen = {PlatformCode(NUMPAD5_VK)}
    /\ klast.ev.vk = <<NUMPAD5_VK>>
    /\ klast.res = "called"

\* C22: for an event that carries a platform code, a binding that has a
\* platform code matches if and only if the codes are equal, whatever the
\* event's character; the character decides only when the binding has no
\* platform code.
C22_Precedence ==
    \A b \in klast.seen :
      /\ klast.seen = {b}
      /\ klast.ev.kind = "code"
      /\ klast.ev.vk # Unset
      /\ b[1] # Unset
      => (Invoked <=> klast.ev.vk = b[1])

\* C23: while the binding is unbound no key event invokes the toggle
\* callback.
C23_UnboundNeverMatches == klast.seen = {Unbound} => ~Invoked

\* Under the unbound binding a character-only event, whose platform code is
\* None as the binding's is, has been handled without a call.
C23_Witness ==
    /\ klast.seen = {Unbound}
    /\ klast.ev.kind = "code"
    /\ klast.ev.vk = Unset
    /\ klast.res = "missed"

\* C24: the toggle callback is invoked only for a key event that matches a
\* complete binding in force while the event was handled: the one before or
\* the one after a concurrent set_hotkey.
C24_AtomicReplace ==
    Invoked => \E b \in klast.seen : IsHotkeyMatch(b, klast.ev)

\* C25: a fault raised while one key event is handled is caught: the
\* listener that handled it stays subscribed, and an event it handles
\* afterwards that matches the binding invokes the toggle callback.
C25_FaultsCaught ==
    /\ \A l \in kfaulted : l = hk_listener => lstate[l] = "running"
    /\ \A b \in klast.seen :
         /\ klast.by \in kfaulted
         /\ klast.seen = {b}
         /\ IsHotkeyMatch(b, klast.ev)
         => Invoked

\* After a fault the same listener has handled a matching event and the
\* callback returned.
C25_Witness ==
    /\ klast.by \in kfaulted
    /\ lstate[klast.by] = "running"
    /\ klast.res = "called"

\* C26: start() and stop() never raise; when no platform call has failed,
\* the handler's listener is running after start(), whether or not one was
\* running before, and no listener is running and none is kept after stop().
Running == {l \in Listeners : lstate[l] = "running"}
C31_RollbackStep(c) ==
    (spc[c] = "s_rb_handle" /\ spc'[c] # "s_rb_handle") =>
      /\ ~sched_is_active'
      /\ sched_thread' = NoThread
      /\ spc'[c] = "none"
      /\ pc[c] = "x_start" => (pc'[c] = "x_raised" /\ "launch" \in call'[c].fault)
\* Thread objects whose launch failed: created, never started.
FailedLaunches == {t \in Threads : tpc[t] = "new" /\ sched_thread # t}
C31_RetryStep(c) ==
    (spc[c] = "s_check" /\ FailedLaunches # {} /\ ~sched_is_active) =>
      (StartCheck(c) => spc'[c] = "s_create")
C31_LaunchFailureRolledBack ==
    [][\A c \in Callers : C31_RollbackStep(c) /\ C31_RetryStep(c)]_vars

\* A start() has returned normally, its loop thread live, after an earlier
\* start() whose launch failed.
C31_Witness ==
    /\ FailedLaunches # {}
    /\ pc["ui"] = "x_returned"
    /\ call["ui"].path = "start"
    /\ sched_is_active
    /\ sched_thread \in LiveThreads

\* C32: whenever no set_hotkey call is in flight, at most one of
\* _hotkey_vk, _hotkey_char and _hotkey_name is populated.
Populated == {i \in 1..3 : Binding[i] # Unset}
C32_TaggedVariant == hpc = "idle" => Cardinality(Populated) <= 1

\* C33: no deadlock.  The state lock is held only inside single steps, none
\* of which sleeps, clicks, joins or calls another component; every caller
\* inside a call and every live loop thread can take a step in every
\* reachable state, and every call eventually returns.
InCall(c) == pc[c] # "idle"
C33_CanStep ==
    /\ \A c \in Callers : InCall(c) => ENABLED (InCall(c) /\ LiveStep(c))
    /\ \A t \in Threads : Live(t) => ENABLED ThreadStep(t)
C33_NoDeadlock ==
    /\ []C33_CanStep
    /\ \A c \in Callers : InCall(c) ~> ~InCall(c)

\* A stop() waits in join for a loop thread that is asleep while the other
\* caller is inside a call of its own.
C33_Witness ==
    \E c \in Callers :
      /\ spc[c] = "p_wait"
      /\ tpc[jt[c]] = "sleep"
      /\ \A d \in Callers : InCall(d)

\* C37: while is_active stays cleared every live loop thread exits: a thread
\* that wakes with is_active cleared goes to the loop's check without
\* clicking, a thread past the re-check returns to the check after its one
\* click, and the check ends the thread.
C37_ThreadStep(t) ==
    /\ (LoopWake(t) /\ ~sched_is_active) => tpc'[t] = "check"
    /\ ClickIssue(t) => tpc'[t] = "check"
    /\ (LoopCheck(t) /\ ~sched_is_active) => tpc'[t] = "dead"
C37_LoopExits ==
    /\ [][\A t \in Threads : C37_ThreadStep(t)]_vars
    /\ \A t \in Threads :
         (Live(t) /\ ~sched_is_active) ~> (~Live(t) \/ sched_is_active)

\* A loop thread has exited after a click, is_active having been cleared and
\* not set again.
C37_Witness ==
    \E t \in Threads :
      /\ tpc[t] = "dead"
      /\ last_click # NoPos
      /\ everCleared
      /\ ~sched_is_active

\* C34: whenever no toggle_clicking or update_delay_range call is in
\* flight, the application is Active exactly when the scheduler is running,
\* and a position is locked only while the application is Active.
NoCallInFlight == \A c \in Callers : pc[c] = "idle"
C34_ControllerSchedulerAgree ==
    NoCallInFlight =>
      /\ app_is_active <=> sched_is_active
      /\ locked_position # NoPos => app_is_active

\* C35: update_delay_range called while the application is Active returns
\* with the scheduler running on a live loop thread and the new bounds
\* stored, the application still Active and the locked position still the
\* one mirrored at activation; called while Idle it returns with the new
\* bounds stored and the scheduler not started.
NewBoundsStored ==
    \E r \in UpdateInputs :
      <<min_delay, max_delay>> = ClampedRange(r[1], r[2])
C35_UpdateStep(c) ==
    (Returns(c) /\ call[c].path = "update") =>
      /\ NewBoundsStored'
      /\ UNCHANGED <<app_is_active, locked_position, app_locked_position>>
      /\ locked_position = app_locked_position
      /\ IF app_is_active
         THEN /\ sched_is_active'
              /\ sched_thread' \in Threads
              /\ tpc'[sched_thread'] \notin {"unborn", "new", "dead"}
         ELSE /\ ~sched_is_active'
              /\ pc[c] = "u_check"
              /\ UNCHANGED <<sched_thread, tpc>>
C35_UpdateRestarts == [][\A c \in Callers : C35_UpdateStep(c)]_vars

\* C36: whenever is_active is true and no start() or stop() is in flight,
\* self.thread is the live loop thread; in particular a stop() that finishes
\* its cleanup while a start() runs does not leave the scheduler running
\* without a handle.
NoSchedulerCall == \A c \in Callers : spc[c] = "none"
C36_HandleTracksWorker ==
    (sched_is_active /\ NoSchedulerCall) => sched_thread \in LiveThreads

\* C38: every toggle_clicking call posts exactly one status update to the
\* UI queue; the state the display owns (the window's running flag and
\* position, the indicator's active flag) changes only in a step of the UI
\* thread that takes a post from the queue; and when the queue is empty and
\* no call is in flight the window shows the controller's is_active and
\* locked position.
StatusPosts(c) == call[c].done \cap {"status_active", "status_inactive"}
C38_PostStep(c) ==
    (Returns(c) /\ InToggle(c)) =>
      Cardinality(StatusPosts(c)) = 1
C38_OwnedStep ==
    (ui_shown' # ui_shown \/ ind_is_active' # ind_is_active) => DrainOne
C38_Drained ==
    (ui_queue = <<>> /\ NoCallInFlight) =>
      ui_shown = <<app_is_active, app_locked_position>>
C38_AsyncStatus ==
    /\ [][C38_OwnedStep /\ \A c \in Callers : C38_PostStep(c)]_vars
    /\ []C38_Drained

====
